---- MODULE Spec2Model ----
(***************************************************************************)
(* A model of the scoring-rule entry points of scoringrules:               *)
(*   scoringrules/_crps.py  crps_ensemble, twcrps_ensemble, crps_quantile, *)
(*                          owcrps_ensemble, vrcrps_ensemble               *)
(*   scoringrules/brier.py  brier_score                                    *)
(* Real numbers are exact: a score is a fraction num/den, and den = 0 is   *)
(* the non-finite value a floating-point division by zero produces.        *)
(* The kernels of scoringrules.core.crps and the backend registry live     *)
(* outside the files modelled here; they follow the formulas of the        *)
(* docstrings and of the design document and are marked in the comments.   *)
(***************************************************************************)
EXTENDS Integers, Sequences, FiniteSets, TLC

VARIABLES
    active,   \* backends.active: the process-wide default backend
    call,     \* the arguments of the call being made (fn = "none": no call yet)
    res,      \* what the call returned or raised, and the operations it performed
    pc,       \* position of the calling thread: "idle", "entered", "done"
    B         \* the backend the entry point bound on entry (line 49, 178, 238, 313)

vars == <<active, call, res, pc, B>>

----------------------------------------------------------------------------
(* Bounds of the model *)

\* ensemble members and observations are integers 0..MaxVal
MaxVal == 2
\* ensembles have 1..MaxM members
MaxM == 4
\* every axis of a quantile forecast array has length 1..MaxDim
MaxDim == 3
\* brier_score arrays have 1..MaxLen elements
MaxLen == 2

----------------------------------------------------------------------------
(* Values *)

None == "None"

\* the backends the tests run over (tests/test_crps.py:6,23)
BACKENDS == {"numpy", "numba", "jax", "torch", "tensorflow"}

BackendArgs == BACKENDS \cup {None}

\* ESTIMATORS of tests/test_crps.py:11
ESTIMATORS == {"nrg", "fair", "pwm", "int", "qd", "akr", "akr_circperm"}

\* keys of crps.estimator_gufuncs: the seven ensemble kernels, and the two
\* weighted kernels the entry points look up as "ow" + estimator and
\* "vr" + estimator (_crps.py:251, 326)
estimator_gufuncs == ESTIMATORS \cup {"ownrg", "vrnrg"}

Abs(x) == IF x < 0 THEN -x ELSE x

Max(a, b) == IF a >= b THEN a ELSE b

\* a score num/den; den = 0 stands for NaN or an infinity
Rat(n, d) == [num |-> n, den |-> d]

IsFinite(s) == s.den # 0

\* s >= 0, for a finite score with a positive denominator
NonNegative(s) == s.den > 0 /\ s.num >= 0

\* two scores are the same number (or both non-finite)
SameScore(a, b) ==
    IF a.den = 0 \/ b.den = 0 THEN a.den = b.den
    ELSE a.num * b.den = b.num * a.den

RECURSIVE SumSeq(_)
SumSeq(s) == IF s = <<>> THEN 0 ELSE Head(s) + SumSeq(Tail(s))

\* insert x into the ascending sequence s
RECURSIVE Insert(_, _)
Insert(x, s) ==
    IF s = <<>> THEN <<x>>
    ELSE IF x <= Head(s) THEN <<x>> \o s
    ELSE <<Head(s)>> \o Insert(x, Tail(s))

\* B.sort(forecasts, axis=-1): ascending order along the ensemble axis
RECURSIVE sort(_)
sort(s) == IF s = <<>> THEN <<>> ELSE Insert(Head(s), sort(Tail(s)))

\* the position a possibly negative axis names in an array of ndim axes
NormAxis(axis, ndim) == IF axis < 0 THEN axis + ndim ELSE axis

\* B.moveaxis(x, axis, -1) on the shape: the named axis becomes the last one
moveaxis(shape, axis) ==
    LET k == NormAxis(axis, Len(shape)) + 1
        rest == [i \in 1..(Len(shape) - 1) |->
                    IF i < k THEN shape[i] ELSE shape[i + 1]]
    IN  rest \o <<shape[k]>>

----------------------------------------------------------------------------
(* Chaining and weight functions a caller may pass *)

\* v_func: "clip" projects onto [1, inf), "fold" is |x - 1| (not monotone)
VFuncs == {"clip", "fold"}

v_func(v, x) == IF v = "clip" THEN Max(x, 1) ELSE Abs(x - 1)

\* v_func on an array: elementwise
v_func_array(v, s) == [i \in 1..Len(s) |-> v_func(v, s[i])]

\* w_func: "one" weighs everything by 1, "tail" is the indicator of x >= 1
WFuncs == {"one", "tail"}

w_func(w, x) == IF w = "one" THEN 1 ELSE IF x >= 1 THEN 1 ELSE 0

\* w_func on an array: elementwise
w_func_array(w, s) == [i \in 1..Len(s) |-> w_func(w, s[i])]


----------------------------------------------------------------------------
(* Kernels of scoringrules.core.crps.  y is the observation, x the ensemble *)
(* as the entry point hands it over (sorted or not), M its size.           *)

\* sum over m of |x_m - y|
SumAbsObs(y, x) == SumSeq([m \in 1..Len(x) |-> Abs(x[m] - y)])

\* sum over m and j of |x_m - x_j|
PairSum(x) ==
    SumSeq([m \in 1..Len(x) |->
              SumSeq([j \in 1..Len(x) |-> Abs(x[m] - x[j])])])

\* nrg: (1/M) sum|x_m - y| - (1/(2 M^2)) sum sum |x_m - x_j|   (_crps.py:86)
ensemble_nrg(y, x) ==
    LET M == Len(x)
    IN  Rat(2 * M * SumAbsObs(y, x) - PairSum(x), 2 * M * M)

\* fair: the pairwise term is divided by 2 M (M - 1) instead of 2 M^2;
\* for M = 1 this is the division 0 / 0
ensemble_fair(y, x) ==
    LET M == Len(x)
    IN  Rat(2 * (M - 1) * SumAbsObs(y, x) - PairSum(x), 2 * M * (M - 1))

\* pwm: mean absolute deviation minus half of
\* (2/(M(M-1))) sum_i (2i - M - 1) x_(i), x taken in the order given
ensemble_pwm(y, x) ==
    LET M == Len(x)
        W == SumSeq([i \in 1..M |-> (2 * i - M - 1) * x[i]])
    IN  Rat((M - 1) * SumAbsObs(y, x) - W, M * (M - 1))

\* int: the integral of (F_ens(t) - 1{y <= t})^2 summed over the intervals
\* between consecutive members, F_ens = i/M on the i-th interval, plus the
\* two tails outside the ensemble; all terms in units of 1/M^2
IntInterval(y, x, i) ==
    LET M == Len(x)
        lo == x[i]
        hi == x[i + 1]
    IN  IF lo <= y /\ y < hi
        THEN (y - lo) * i * i + (hi - y) * (M - i) * (M - i)
        ELSE IF y >= hi THEN (hi - lo) * i * i
        ELSE (hi - lo) * (M - i) * (M - i)

ensemble_int(y, x) ==
    LET M == Len(x)
        below == IF y < x[1] THEN (x[1] - y) * M * M ELSE 0
        above == IF y > x[M] THEN (y - x[M]) * M * M ELSE 0
        inner == SumSeq([i \in 1..(M - 1) |-> IntInterval(y, x, i)])
    IN  Rat(below + inner + above, M * M)

\* qd: the i-th member is the quantile at level (i - 0.5)/M; twice the mean
\* pinball loss; each term in units of 1/(2M)
ensemble_qd(y, x) ==
    LET M == Len(x)
        PB(i) == IF y >= x[i] THEN (2 * i - 1) * (y - x[i])
                 ELSE (2 * M - 2 * i + 1) * (x[i] - y)
    IN  Rat(SumSeq([i \in 1..M |-> PB(i)]), M * M)

\* the member a circular shift by k pairs with member i
Shifted(i, k, M) == ((i - 1 + k) % M) + 1

\* akr: (1/M) sum|x_i - y| - (1/(2M)) sum|x_i - x_s(i)|, s the circular
\* shift by one member
ensemble_akr(y, x) ==
    LET M == Len(x)
        e2 == SumSeq([i \in 1..M |-> Abs(x[i] - x[Shifted(i, M - 1, M)])])
    IN  Rat(2 * SumAbsObs(y, x) - e2, 2 * M)

\* akr_circperm: the same with the circular permutation by half the ensemble
ensemble_akr_circperm(y, x) ==
    LET M == Len(x)
        e2 == SumSeq([i \in 1..M |->
                        Abs(x[i] - x[Shifted(i, (M + 1) \div 2, M)])])
    IN  Rat(2 * SumAbsObs(y, x) - e2, 2 * M)

kernel(estimator, y, x) ==
    CASE estimator = "nrg" -> ensemble_nrg(y, x)
      [] estimator = "fair" -> ensemble_fair(y, x)
      [] estimator = "pwm" -> ensemble_pwm(y, x)
      [] estimator = "int" -> ensemble_int(y, x)
      [] estimator = "qd" -> ensemble_qd(y, x)
      [] estimator = "akr" -> ensemble_akr(y, x)
      [] estimator = "akr_circperm" -> ensemble_akr_circperm(y, x)

\* owCRPS (_crps.py:208), with Wsum = M * wbar:
\*   A / Wsum - Bs / (2 Wsum^2)
ow_ensemble(y, x, wy, wx) ==
    LET M == Len(x)
        Wsum == SumSeq(wx)
        A == SumSeq([m \in 1..M |-> Abs(x[m] - y) * wx[m] * wy])
        Bs == SumSeq([m \in 1..M |->
                SumSeq([j \in 1..M |-> Abs(x[m] - x[j]) * wx[m] * wx[j] * wy])])
    IN  Rat(2 * Wsum * A - Bs, 2 * Wsum * Wsum)

\* vrCRPS (_crps.py:280-281)
vr_ensemble(y, x, wy, wx) ==
    LET M == Len(x)
        Wsum == SumSeq(wx)
        A == SumSeq([m \in 1..M |-> Abs(x[m] - y) * wx[m] * wy])
        Bs == SumSeq([m \in 1..M |->
                SumSeq([j \in 1..M |-> Abs(x[m] - x[j]) * wx[m] * wx[j]])])
        C == SumSeq([m \in 1..M |-> Abs(x[m]) * wx[m]])
    IN  Rat(2 * M * A - Bs + 2 * (C - M * Abs(y) * wy) * (Wsum - M * wy),
            2 * M * M)

----------------------------------------------------------------------------
(* Outcomes.  ops lists, in order, the operations the call performed;      *)
(* entry is the backend bound on entry, compute the backend whose kernel   *)
(* produced the score, route the kernel family.                            *)

NoResult == [kind |-> "none"]

Raised(exc, ops, entry) ==
    [kind |-> exc, ops |-> ops \o <<"raise">>, entry |-> entry]

Returned(val, ops, entry, compute, route) ==
    [kind |-> "score", val |-> val, ops |-> ops \o <<"kernel">>,
     entry |-> entry, compute |-> compute, route |-> route]

\* backends.active if backend is None else backends[backend]
\* (_crps.py:49, 178, 238, 313)
resolve_backend(backend, act) == IF backend = None THEN act ELSE backend

\* _crps.py:52  estimator not in crps.estimator_gufuncs
estimator_unknown(estimator) == estimator \notin estimator_gufuncs

\* needs_sort with one sort-dependent estimator listed among those left unsorted
needs_sort_skip_pwm(sorted_ensemble, estimator) ==
    ~sorted_ensemble
    /\ estimator \notin {"nrg", "akr", "akr_circperm", "fair", "pwm"}

needs_sort_skip_int(sorted_ensemble, estimator) ==
    ~sorted_ensemble
    /\ estimator \notin {"nrg", "akr", "akr_circperm", "fair", "int"}

needs_sort_skip_qd(sorted_ensemble, estimator) ==
    ~sorted_ensemble
    /\ estimator \notin {"nrg", "akr", "akr_circperm", "fair", "qd"}

\* _crps.py:61  not sorted_ensemble and estimator not in [...]
needs_sort(sorted_ensemble, estimator) ==
    ~sorted_ensemble /\ estimator \notin {"nrg", "akr", "akr_circperm", "fair"}

\* use_gufunc that never takes the compiled route
use_gufunc_never(backend) == FALSE

\* _crps.py:64, 250, 325  backend == "numba"
use_gufunc(backend) == backend = "numba"

\* _crps.py:187  B.name == "numba"
quantile_use_gufunc(Bname) == Bname = "numba"

\* crps.estimator_gufuncs[estimator](observations, forecasts) (_crps.py:65):
\* the ensemble kernels take the two arrays; the weighted kernels take four
\* (_crps.py:251-253) and reject a call with two
gufunc_call(estimator, y, x, ops, entry) ==
    IF estimator \in ESTIMATORS
    THEN Returned(kernel(estimator, y, x), ops, entry, "numba", "gufunc")
    ELSE [kind |-> "TypeError", ops |-> ops \o <<"kernel", "raise">>,
          entry |-> entry]

\* crps.ensemble(observations, forecasts, estimator, backend=backend)
\* (_crps.py:67): resolves its own backend from the argument it is given,
\* and implements nrg, fair and pwm only (tests/test_crps.py:23-27)
core_ensemble(estimator, y, x, backend, act, ops, entry) ==
    IF estimator \in {"nrg", "fair", "pwm"}
    THEN Returned(kernel(estimator, y, x), ops, entry,
                  resolve_backend(backend, act), "generic")
    ELSE [kind |-> "ValueError", ops |-> ops \o <<"kernel", "raise">>,
          entry |-> entry]

\* crps_ensemble (_crps.py:49-67).  c: the arguments; entry: the backend read
\* at line 49; act: backends.active when the generic kernel resolves it.
\* The forecasts are one-dimensional, so the axis move leaves the data as is.
crps_ensemble(c, entry, act) ==
    LET ops0 == <<"asarray">>
        ops1 == IF c.axis # -1 THEN ops0 \o <<"moveaxis">> ELSE ops0
        srt  == needs_sort(c.sorted_ensemble, c.estimator)
        fct  == IF srt THEN sort(c.forecasts) ELSE c.forecasts
        ops2 == IF srt THEN ops1 \o <<"sort">> ELSE ops1
    IN  IF estimator_unknown(c.estimator)
        THEN Raised("ValueError", ops0, entry)
        ELSE IF use_gufunc(c.backend)
        THEN gufunc_call(c.estimator, c.observations, fct, ops2, entry)
        ELSE core_ensemble(c.estimator, c.observations, fct, c.backend, act,
                           ops2, entry)

\* twcrps_ensemble that does not forward sorted_ensemble (the default, false,
\* reaches crps_ensemble)
twcrps_ensemble_default_sorted(c, entry, act) ==
    LET c2 == [c EXCEPT !.observations = v_func(c.v_func, c.observations),
                        !.forecasts = v_func_array(c.v_func, c.forecasts),
                        !.sorted_ensemble = FALSE]
        r  == crps_ensemble(c2, entry, act)
    IN  [r EXCEPT !.ops = <<"v_func", "v_func">> \o r.ops]

\* twcrps_ensemble (_crps.py:118-126): v_func on the observations and on the
\* forecasts, then crps_ensemble on the results
twcrps_ensemble(c, entry, act) ==
    LET c2 == [c EXCEPT !.observations = v_func(c.v_func, c.observations),
                        !.forecasts = v_func_array(c.v_func, c.forecasts)]
        r  == crps_ensemble(c2, entry, act)
    IN  [r EXCEPT !.ops = <<"v_func", "v_func">> \o r.ops]

\* weighted_ensemble with the estimator check placed after the weights
weighted_ensemble_late_check(prefix, c, entry, act) ==
    LET ops1 == IF c.axis # -1 THEN <<"moveaxis">> ELSE <<>>
        ops2 == ops1 \o <<"w_func", "w_func">>
        wy   == w_func(c.w_func, c.observations)
        wx   == w_func_array(c.w_func, c.forecasts)
        val  == IF prefix = "ow"
                THEN ow_ensemble(c.observations, c.forecasts, wy, wx)
                ELSE vr_ensemble(c.observations, c.forecasts, wy, wx)
    IN  IF c.estimator # "nrg"
        THEN Raised("ValueError", ops2, entry)
        ELSE IF use_gufunc(c.backend)
        THEN Returned(val, ops2, entry, "numba", "gufunc")
        ELSE Returned(val, ops2 \o <<"asarray">>, entry,
                      resolve_backend(c.backend, act), "generic")

\* the part owcrps_ensemble and vrcrps_ensemble share (_crps.py:238-260 and
\* 313-335); prefix is "ow" or "vr"
weighted_ensemble(prefix, c, entry, act) ==
    LET ops1 == IF c.axis # -1 THEN <<"moveaxis">> ELSE <<>>
        ops2 == ops1 \o <<"w_func", "w_func">>
        wy   == w_func(c.w_func, c.observations)
        wx   == w_func_array(c.w_func, c.forecasts)
        val  == IF prefix = "ow"
                THEN ow_ensemble(c.observations, c.forecasts, wy, wx)
                ELSE vr_ensemble(c.observations, c.forecasts, wy, wx)
    IN  IF c.estimator # "nrg"
        THEN Raised("ValueError", <<>>, entry)
        ELSE IF use_gufunc(c.backend)
        THEN Returned(val, ops2, entry, "numba", "gufunc")
        ELSE Returned(val, ops2 \o <<"asarray">>, entry,
                      resolve_backend(c.backend, act), "generic")

owcrps_ensemble(c, entry, act) == weighted_ensemble("ow", c, entry, act)

vrcrps_ensemble(c, entry, act) == weighted_ensemble("vr", c, entry, act)

\* quantile_shape without the axis move
quantile_shape_unmoved(shape, axis) == shape

\* _crps.py:181-182: the shape of forecasts after the optional axis move
quantile_shape(shape, axis) ==
    IF axis # -1 THEN moveaxis(shape, axis) ELSE shape

\* _crps.py:184  not forecasts.shape[-1] == alpha.shape[-1]
quantile_mismatch(shape, alen) == shape[Len(shape)] # alen

\* crps_quantile (_crps.py:178-190).  Only the shapes are modelled: c.shape is
\* forecasts.shape, c.alen the length of alpha.
crps_quantile(c, entry, act) ==
    LET ops0 == <<"asarray">>
        ops1 == IF c.axis # -1 THEN ops0 \o <<"moveaxis">> ELSE ops0
        shp  == quantile_shape(c.shape, c.axis)
    IN  IF quantile_mismatch(shp, c.alen)
        THEN Raised("ValueError", ops1, entry)
        ELSE IF quantile_use_gufunc(entry)
        THEN [kind |-> "score", ops |-> ops1 \o <<"kernel">>, entry |-> entry,
              compute |-> "numba", route |-> "gufunc"]
        ELSE [kind |-> "score", ops |-> ops1 \o <<"kernel">>, entry |-> entry,
              compute |-> resolve_backend(c.backend, act), route |-> "generic"]

----------------------------------------------------------------------------
(* brier_score (brier.py).  A float is q/4 + e * (1e-7 / 2): q counts      *)
(* quarters and e counts halves of EPSILON, small enough that the order is *)
(* lexicographic.  NaN compares false with everything.                     *)

Num(q, e) == [nan |-> FALSE, q |-> q, e |-> e]

NaN == [nan |-> TRUE, q |-> 0, e |-> 0]

Zero == Num(0, 0)

One == Num(4, 0)

\* brier.py:4  EPSILON = 1e-7
EPSILON == Num(0, 2)

Plus(a, b) ==
    IF a.nan \/ b.nan THEN NaN ELSE Num(a.q + b.q, a.e + b.e)

Lt(a, b) ==
    ~a.nan /\ ~b.nan /\ (a.q < b.q \/ (a.q = b.q /\ a.e < b.e))

Gt(a, b) == Lt(b, a)

\* (f - y) ** 2 as qq/16 + qe * (1e-7 / 8) + ee * (1e-14 / 4)
SqDiff(f, y) ==
    IF f.nan \/ y.nan THEN [nan |-> TRUE, qq |-> 0, qe |-> 0, ee |-> 0]
    ELSE LET dq == f.q - y.q
             de == f.e - y.e
         IN  [nan |-> FALSE, qq |-> dq * dq, qe |-> 2 * dq * de, ee |-> de * de]

\* brier.py:32  (forecasts < 0.0).any() or (forecasts > (1.0 + EPSILON)).any()
forecasts_out_of_range(f) ==
    \/ \E i \in 1..Len(f) : Lt(f[i], Zero)
    \/ \E i \in 1..Len(f) : Gt(f[i], Plus(One, EPSILON))

\* brier.py:35  not set(np.unique(observations[~np.isnan(observations)])) <= {0, 1}
observations_invalid(y) ==
    ~({y[i] : i \in {j \in 1..Len(y) : ~y[j].nan}} \subseteq {Zero, One})

\* brier_score (brier.py:30-38)
brier_score(c) ==
    IF forecasts_out_of_range(c.forecasts)
    THEN [kind |-> "ValueError", ops |-> <<"raise">>]
    ELSE IF observations_invalid(c.observations)
    THEN [kind |-> "ValueError", ops |-> <<"raise">>]
    ELSE [kind |-> "score", ops |-> <<>>,
          val |-> [i \in 1..Len(c.forecasts) |->
                     SqDiff(c.forecasts[i], c.observations[i])]]

----------------------------------------------------------------------------
(* Inputs *)

\* all ensembles of 1..m members
Ens(m) == UNION {[1..k -> 0..MaxVal] : k \in 1..m}

\* estimator arguments: every key of the kernel table and an unknown name
EstimatorArgs == estimator_gufuncs \cup {"bogus"}

\* sample data for the calls whose dispatch, not whose value, is explored
DispObs == {1}

DispFct == {<<1, 0>>, <<0>>}

CrpsCalls(O, F, A, E, Bk) ==
    [fn : {"crps_ensemble"}, observations : O, forecasts : F, axis : A,
     sorted_ensemble : BOOLEAN, estimator : E, backend : Bk]

TwcrpsCalls(O, F, A, E, Bk) ==
    [fn : {"twcrps_ensemble"}, observations : O, forecasts : F, axis : A,
     sorted_ensemble : BOOLEAN, estimator : E, backend : Bk, v_func : VFuncs]

WeightedCalls(name, E, Bk) ==
    [fn : {name}, observations : DispObs, forecasts : DispFct,
     axis : {-1, 0}, estimator : E, backend : Bk, w_func : WFuncs]

\* forecasts of one or two axes, each of length 1..MaxDim, with a valid axis
QuantileCalls ==
    {c \in [fn : {"crps_quantile"},
            shape : UNION {[1..n -> 1..MaxDim] : n \in 1..2},
            alen : 1..MaxDim, axis : -2..1, backend : BackendArgs] :
        -Len(c.shape) <= c.axis /\ c.axis < Len(c.shape)}

\* floats around the bounds of the valid ranges
ForecastVals ==
    {NaN, Num(0, -1), Zero, Num(2, 0), One, Num(4, 1), Num(4, 2), Num(4, 3),
     Num(5, 0)}

ObservationVals == {NaN, Zero, One, Num(2, 0), Num(4, 1)}

BrierCalls ==
    UNION {[fn : {"brier_score"}, forecasts : [1..n -> ForecastVals],
            observations : [1..n -> ObservationVals]] : n \in 1..MaxLen}

\* calls whose dispatch is explored
DispCrps == CrpsCalls(DispObs, DispFct, {-1, 0}, EstimatorArgs, BackendArgs)

DispTwcrps == TwcrpsCalls(DispObs, DispFct, {-1, 0}, EstimatorArgs, BackendArgs)

DispOwcrps == WeightedCalls("owcrps_ensemble", EstimatorArgs, BackendArgs)

DispVrcrps == WeightedCalls("vrcrps_ensemble", EstimatorArgs, BackendArgs)

\* calls whose value is explored: every ensemble, on both kernel routes
NumCrps == CrpsCalls(0..MaxVal, Ens(MaxM), {-1}, ESTIMATORS, {None, "numba"})

NumTwcrps == TwcrpsCalls(0..MaxVal, Ens(MaxM), {-1}, ESTIMATORS, {None, "numba"})

\* twcrps_ensemble calls with the ensemble axis named either way
TwAxisCalls ==
    TwcrpsCalls(0..MaxVal, Ens(MaxM), {-1, 0}, ESTIMATORS, {None, "numba"})

\* calls made while another thread switches the active backend
ConcCalls ==
    CrpsCalls(DispObs, DispFct, {-1}, {"nrg", "pwm"}, BackendArgs)
    \cup WeightedCalls("owcrps_ensemble", {"nrg"}, BackendArgs)
    \cup WeightedCalls("vrcrps_ensemble", {"nrg"}, BackendArgs)

----------------------------------------------------------------------------
(* The state machine *)

\* after import the active backend is numba if available, else numpy
\* (_crps.py:37)
Init ==
    /\ active \in {"numba", "numpy"}
    /\ call = [fn |-> "none"]
    /\ res = NoResult
    /\ pc = "idle"
    /\ B = None

Handle(c, entry, act) ==
    CASE c.fn = "crps_ensemble" -> crps_ensemble(c, entry, act)
      [] c.fn = "twcrps_ensemble" -> twcrps_ensemble(c, entry, act)
      [] c.fn = "owcrps_ensemble" -> owcrps_ensemble(c, entry, act)
      [] c.fn = "vrcrps_ensemble" -> vrcrps_ensemble(c, entry, act)
      [] c.fn = "crps_quantile" -> crps_quantile(c, entry, act)

\* a whole call, with no other thread running
Run(c) ==
    /\ call' = c
    /\ res' = Handle(c, resolve_backend(c.backend, active), active)
    /\ pc' = "done"
    /\ UNCHANGED <<active, B>>

\* an idle thread makes one of the given calls
CrpsEnsemble(calls) == pc = "idle" /\ \E c \in calls : Run(c)

TwcrpsEnsemble(calls) == pc = "idle" /\ \E c \in calls : Run(c)

OwcrpsEnsemble(calls) == pc = "idle" /\ \E c \in calls : Run(c)

VrcrpsEnsemble(calls) == pc = "idle" /\ \E c \in calls : Run(c)

CrpsQuantile(calls) == pc = "idle" /\ \E c \in calls : Run(c)

BrierScore(calls) ==
    /\ pc = "idle"
    /\ \E c \in calls :
         /\ call' = c
         /\ res' = brier_score(c)
         /\ pc' = "done"
         /\ UNCHANGED <<active, B>>

\* another caller makes b the active backend
SetActive(b) ==
    /\ b # active
    /\ active' = b
    /\ UNCHANGED <<call, res, pc, B>>

\* the calling thread reads the backend on entry (_crps.py:49, 238, 313) ...
Enter(calls) ==
    /\ pc = "idle"
    /\ \E c \in calls :
         /\ call' = c
         /\ B' = resolve_backend(c.backend, active)
    /\ res' = NoResult
    /\ pc' = "entered"
    /\ UNCHANGED active

\* ... and runs the rest of the call, the kernel reading backends.active
\* again when it was handed backend=None (_crps.py:67, 258-260, 333-335)
Compute ==
    /\ pc = "entered"
    /\ res' = Handle(call, B, active)
    /\ pc' = "done"
    /\ UNCHANGED <<active, call, B>>

\* the call is over: its arguments, its locals and its result are dropped
Return ==
    /\ pc = "done"
    /\ pc' = "idle"
    /\ call' = [fn |-> "none"]
    /\ res' = NoResult
    /\ B' = None
    /\ UNCHANGED active

Next ==
    \/ CrpsEnsemble(DispCrps)
    \/ TwcrpsEnsemble(DispTwcrps)
    \/ OwcrpsEnsemble(DispOwcrps)
    \/ VrcrpsEnsemble(DispVrcrps)
    \/ CrpsQuantile(QuantileCalls)
    \/ Return
    \/ \E b \in BACKENDS : SetActive(b)

Spec == Init /\ [][Next]_vars

\* the values of crps_ensemble
NextNum ==
    \/ CrpsEnsemble(NumCrps)
    \/ Return

SpecNum == Init /\ [][NextNum]_vars

\* the values of crps_ensemble and of twcrps_ensemble
NextTw ==
    \/ CrpsEnsemble(NumCrps)
    \/ TwcrpsEnsemble(NumTwcrps)
    \/ Return

SpecTw == Init /\ [][NextTw]_vars

\* the values and the operations of twcrps_ensemble
NextTwAxis ==
    \/ TwcrpsEnsemble(TwAxisCalls)
    \/ Return

SpecTwAxis == Init /\ [][NextTwAxis]_vars

NextBrier ==
    \/ BrierScore(BrierCalls)
    \/ Return

SpecBrier == Init /\ [][NextBrier]_vars

\* a call in two steps, with another thread switching the active backend
NextConc ==
    \/ Enter(ConcCalls)
    \/ Compute
    \/ Return
    \/ \E b \in BACKENDS : SetActive(b)

SpecConc == Init /\ [][NextConc]_vars

----------------------------------------------------------------------------
(* Properties *)

Done(fns) == pc = "done" /\ call.fn \in fns

Performed(op) == \E i \in 1..Len(res.ops) : res.ops[i] = op

\* the same exception, or the same score
SameOutcome(a, b) ==
    /\ a.kind = b.kind
    /\ a.kind = "score" => SameScore(a.val, b.val)

\* C1: crps_ensemble and twcrps_ensemble raise ValueError for every estimator
\* outside the seven ensemble estimators, before the chaining function, the
\* axis move, the sort or a kernel has run.
C1_UnknownEstimatorFailsFast ==
    (Done({"crps_ensemble", "twcrps_ensemble"})
       /\ call.estimator \notin ESTIMATORS)
    => /\ res.kind = "ValueError"
       /\ ~Performed("v_func")
       /\ ~Performed("moveaxis")
       /\ ~Performed("sort")
       /\ ~Performed("kernel")

\* C2: owcrps_ensemble and vrcrps_ensemble raise ValueError for every
\* estimator other than "nrg", before w_func, the axis move or a kernel has
\* run, and raise no ValueError for "nrg".
C2_WeightedOnlyNrg ==
    Done({"owcrps_ensemble", "vrcrps_ensemble"})
    => /\ call.estimator # "nrg"
          => /\ res.kind = "ValueError"
             /\ ~Performed("w_func")
             /\ ~Performed("moveaxis")
             /\ ~Performed("kernel")
       /\ call.estimator = "nrg" => res.kind # "ValueError"

C2_Witness ==
    /\ Done({"owcrps_ensemble", "vrcrps_ensemble"})
    /\ call.estimator = "pwm"
    /\ call.axis = 0
    /\ res.kind = "ValueError"

\* C3: crps_quantile raises ValueError exactly when the axis of the forecasts
\* that the axis argument names has a length other than alpha's, and then
\* before a pinball kernel is called.
C3_QuantileLengthCheck ==
    Done({"crps_quantile"})
    => LET named == call.shape[NormAxis(call.axis, Len(call.shape)) + 1]
       IN  /\ res.kind = "ValueError" <=> named # call.alen
           /\ res.kind # "ValueError" => res.kind = "score"
           /\ res.kind = "ValueError" => ~Performed("kernel")

\* the named axis is not the last one, and only the last one matches alpha
C3_Witness ==
    /\ Done({"crps_quantile"})
    /\ Len(call.shape) = 2
    /\ call.axis = 0
    /\ call.shape[1] # call.alen
    /\ call.shape[2] = call.alen
    /\ res.kind = "ValueError"

\* what C4 calls a valid forecast: a value in [0, 1 + EPSILON]
ForecastInRange(f) ==
    ~f.nan /\ ~Lt(f, Zero) /\ ~Gt(f, Plus(One, EPSILON))

\* what C4 calls a valid observation: 0, 1 or NaN
ObservationAllowed(y) == y.nan \/ y = Zero \/ y = One

\* C4: brier_score raises whenever a forecast is not a value in
\* [0, 1 + EPSILON] or an observation is not 0, 1 or NaN, and otherwise
\* returns (f - y)^2 elementwise: 1.0 for (1.0, 0), 0.25 for (0.5, 1), NaN
\* where the observation is NaN.
C4_BrierValidation ==
    Done({"brier_score"})
    => LET n == Len(call.forecasts)
           valid == /\ \A i \in 1..n : ForecastInRange(call.forecasts[i])
                    /\ \A i \in 1..n : ObservationAllowed(call.observations[i])
       IN  IF ~valid THEN res.kind = "ValueError"
           ELSE /\ res.kind = "score"
                /\ \A i \in 1..n :
                     LET f == call.forecasts[i]
                         y == call.observations[i]
                     IN  /\ res.val[i] = SqDiff(f, y)
                         /\ (f = One /\ y = Zero)
                            => res.val[i] = [nan |-> FALSE, qq |-> 16, qe |-> 0, ee |-> 0]
                         /\ (f = Num(2, 0) /\ y = One)
                            => res.val[i] = [nan |-> FALSE, qq |-> 4, qe |-> 0, ee |-> 0]
                         /\ y.nan => res.val[i].nan

\* C5: for pwm, int and qd, crps_ensemble on an ensemble with
\* sorted_ensemble=false returns what it returns on the ascending ensemble
\* with sorted_ensemble=true.
C5_SortInvariance ==
    (Done({"crps_ensemble"})
       /\ call.estimator \in {"pwm", "int", "qd"}
       /\ ~call.sorted_ensemble)
    => SameOutcome(res,
         crps_ensemble([call EXCEPT !.forecasts = sort(call.forecasts),
                                    !.sorted_ensemble = TRUE],
                       res.entry, active))

HasTie(x) == \E i, j \in 1..Len(x) : i # j /\ x[i] = x[j]

\* a score for an unsorted ensemble with a tie
C5_Witness ==
    /\ Done({"crps_ensemble"})
    /\ call.estimator = "int"
    /\ ~call.sorted_ensemble
    /\ call.forecasts # sort(call.forecasts)
    /\ HasTie(call.forecasts)
    /\ res.kind = "score"

\* C6: with sorted_ensemble=false and at least two members, every score
\* crps_ensemble or twcrps_ensemble returns, for any of the seven
\* estimators, is >= 0.
C6_NonNegative ==
    (Done({"crps_ensemble", "twcrps_ensemble"})
       /\ ~call.sorted_ensemble
       /\ Len(call.forecasts) >= 2
       /\ res.kind = "score")
    => NonNegative(res.val)

\* a threshold-weighted score of an unsorted ensemble, observation inside it
C6_Witness ==
    /\ Done({"twcrps_ensemble"})
    /\ call.estimator = "int"
    /\ ~call.sorted_ensemble
    /\ Len(call.forecasts) >= 3
    /\ call.forecasts # sort(call.forecasts)
    /\ res.kind = "score"
    /\ res.val.num > 0

AllTied(x) == \A i \in 1..Len(x) : x[i] = x[1]

\* C8: for one member, nrg and fair return the finite |x_1 - y|; an all-tied
\* ensemble of any size gives a finite score.
C8_DegenerateFinite ==
    (Done({"crps_ensemble"})
       /\ call.estimator \in {"nrg", "fair"}
       /\ AllTied(call.forecasts)
       /\ res.kind = "score")
    => /\ IsFinite(res.val)
       /\ Len(call.forecasts) = 1
          => SameScore(res.val,
                       Rat(Abs(call.forecasts[1] - call.observations), 1))

\* x with members i and j exchanged
Swapped(x, i, j) ==
    [k \in 1..Len(x) |-> IF k = i THEN x[j] ELSE IF k = j THEN x[i] ELSE x[k]]

\* the outcome is the same after any exchange of two members.  Every
\* ensemble over the values is an argument the calls range over, and the
\* exchanges generate the permutations, so this is invariance under every
\* permutation of the members.
PermutationInvariant(estimators) ==
    (Done({"crps_ensemble"})
       /\ call.estimator \in estimators
       /\ ~call.sorted_ensemble)
    => \A i, j \in 1..Len(call.forecasts) :
         i < j =>
           SameOutcome(res,
             crps_ensemble([call EXCEPT !.forecasts = Swapped(call.forecasts, i, j)],
                           res.entry, active))

\* C9: with sorted_ensemble=false, crps_ensemble returns the same score for
\* every permutation of the members, for each of the seven estimators.
C9_PermutationInvariant == PermutationInvariant(ESTIMATORS)

\* C9 as amended: the same for nrg, fair, pwm, int and qd.
C9_PermutationInvariantSymmetric ==
    PermutationInvariant({"nrg", "fair", "pwm", "int", "qd"})

\* a score for four distinct-order members on the compiled route
C9_Witness ==
    /\ Done({"crps_ensemble"})
    /\ call.estimator = "qd"
    /\ ~call.sorted_ensemble
    /\ Len(call.forecasts) = 4
    /\ call.forecasts # sort(call.forecasts)
    /\ res.kind = "score"

\* C10: a call with backend=None computes its score on the backend it bound
\* on entry, whatever another thread does to the active backend meanwhile.
C10_OneBackendPerCall ==
    (Done({"crps_ensemble", "owcrps_ensemble", "vrcrps_ensemble"})
       /\ call.backend = None
       /\ res.kind = "score")
    => res.compute = res.entry

\* the crps_ensemble call twcrps_ensemble is said to make
ChainedCall ==
    [fn |-> "crps_ensemble",
     observations |-> v_func(call.v_func, call.observations),
     forecasts |-> v_func_array(call.v_func, call.forecasts),
     axis |-> call.axis,
     sorted_ensemble |-> call.sorted_ensemble,
     estimator |-> call.estimator,
     backend |-> call.backend]

\* C11: twcrps_ensemble returns what crps_ensemble returns on v(obs) and
\* v(fct) with the same axis, sorted_ensemble, estimator and backend; v is
\* applied twice, before anything else; with sorted_ensemble=false a
\* sort-dependent kernel gets the transformed members in ascending order, and
\* with sorted_ensemble=true the kernel gets them as they are.
C11_TwcrpsDelegates ==
    Done({"twcrps_ensemble"})
    => LET direct == crps_ensemble(ChainedCall, res.entry, active)
           vy == v_func(call.v_func, call.observations)
           vx == v_func_array(call.v_func, call.forecasts)
       IN  /\ SameOutcome(res, direct)
           /\ res.entry = direct.entry
           /\ res.ops = <<"v_func", "v_func">> \o direct.ops
           /\ res.kind = "score"
              => /\ res.compute = direct.compute
                 /\ res.route = direct.route
                 /\ (~call.sorted_ensemble
                       /\ call.estimator \in {"pwm", "int", "qd"})
                    => SameScore(res.val, kernel(call.estimator, vy, sort(vx)))
                 /\ call.sorted_ensemble
                    => SameScore(res.val, kernel(call.estimator, vy, vx))

\* a chaining function that is not monotone puts an ascending ensemble out of
\* order, and the sort-dependent kernel still returns a score
C11_Witness ==
    /\ Done({"twcrps_ensemble"})
    /\ call.v_func = "fold"
    /\ call.estimator = "qd"
    /\ ~call.sorted_ensemble
    /\ call.axis = 0
    /\ call.forecasts = sort(call.forecasts)
    /\ v_func_array(call.v_func, call.forecasts)
         # sort(v_func_array(call.v_func, call.forecasts))
    /\ res.kind = "score"

\* the route a call took: the compiled kernel, the generic code, or neither
\* when it raised before choosing
RouteOf(r) == IF "route" \in DOMAIN r THEN r.route ELSE "none"

\* C12: in crps_ensemble, owcrps_ensemble, vrcrps_ensemble and crps_quantile,
\* a call with backend=None while the active backend is "numba" takes the same
\* route as the same call with backend="numba".
C12_RouteByResolvedBackend ==
    ( /\ Done({"crps_ensemble", "owcrps_ensemble", "vrcrps_ensemble",
               "crps_quantile"})
      /\ call.backend = None
      /\ res.entry = "numba" )
    => LET named == Handle([call EXCEPT !.backend = "numba"], "numba", active)
       IN  RouteOf(res) = RouteOf(named)

====
